---- MODULE Spec2Model ----
(***************************************************************************)
(* The trivia API (projects/02_trivia_api/starter/backend/flaskr) and the  *)
(* drinks API (projects/03_coffee_shop_full_stack/.../src/api.py) as state *)
(* machines: the state is the data store of each application, and every    *)
(* action is one HTTP request handled from its arrival to its response.    *)
(* The last request and its response are kept in req and resp.             *)
(***************************************************************************)
EXTENDS Integers, Sequences, FiniteSets, TLC

VARIABLES categories, questions, nextId, mutations, drinks, nextDrinkId, req, resp,
          previous, quizCategory, answered

vars == <<categories, questions, nextId, mutations, drinks, nextDrinkId, req, resp,
          previous, quizCategory, answered>>

triviaVars == <<categories, questions, nextId, mutations>>

drinkVars == <<drinks, nextDrinkId>>

\* A quiz client: the ids of the questions it was given so far, in order, the
\* category it plays, and the status of every answer it got.
sessionVars == <<previous, quizCategory, answered>>

-----------------------------------------------------------------------------
(* Program constants and the bounds of the model.                          *)

QUESTIONS_PER_PAGE == 10

\* Largest number of questions the store holds when the application starts.
SeedMax == 11

\* Number of store-changing requests (create, delete) followed in one run.
MaxMutations == 2

\* The page numbers requested are -NegPages .. MaxPage, or no page argument.
MaxPage == 2

NegPages == 1

\* Number of drinks ever created in one run.
MaxDrinks == 3

\* Largest number of questions in the store a quiz session is played on.
QuizSeedMax == 5

-----------------------------------------------------------------------------
(* Pure helpers.                                                           *)

Min(S) == CHOOSE x \in S : \A y \in S : x <= y

RECURSIVE SortedSeq(_)
\* The elements of a finite set of integers in increasing order.
SortedSeq(S) == IF S = {} THEN <<>> ELSE <<Min(S)>> \o SortedSeq(S \ {Min(S)})

\* Python's s[start:end] on a list, 0-based, with negative indices counted
\* from the end and out-of-range indices clamped.
PySlice(s, start, end) ==
    LET n == Len(s)
        norm(i) == IF i < 0 THEN (IF n + i < 0 THEN 0 ELSE n + i)
                   ELSE IF i > n THEN n ELSE i
        lo == norm(start)
        hi == norm(end)
    IN  IF lo >= hi THEN <<>> ELSE SubSeq(s, lo + 1, hi)

\* request.args.get(name, default, type=int)
ArgsGet(args, name, default) == IF name \in DOMAIN args THEN args[name] ELSE default

\* Lower-casing of one character, as ILIKE folds case.
Lower(c) == CASE c = "A" -> "a" [] c = "B" -> "b" [] c = "C" -> "c" [] OTHER -> c

RECURSIVE LikeMatch(_, _)
\* SQL  text ILIKE pattern : % matches any run of characters, _ any one
\* character, every other character itself ignoring case.
LikeMatch(pattern, text) ==
    IF pattern = <<>> THEN text = <<>>
    ELSE IF Head(pattern) = "%"
         THEN \/ LikeMatch(Tail(pattern), text)
              \/ (text # <<>> /\ LikeMatch(pattern, Tail(text)))
    ELSE IF Head(pattern) = "_"
         THEN text # <<>> /\ LikeMatch(Tail(pattern), Tail(text))
    ELSE /\ text # <<>>
         /\ Lower(Head(pattern)) = Lower(Head(text))
         /\ LikeMatch(Tail(pattern), Tail(text))

\* "%{}%".format(search)
SearchPattern(search) == <<"%">> \o search \o <<"%">>

-----------------------------------------------------------------------------
(* The data store of the trivia application.                               *)

\* A Question object: a row of the questions table under its id.
QuestionObj(id) ==
    [id |-> id, question |-> questions[id].question, answer |-> questions[id].answer,
     category |-> questions[id].category, difficulty |-> questions[id].difficulty]

\* Question.format(): the dictionary sent to the client.
format(q) ==
    [id |-> q.id, question |-> q.question, answer |-> q.answer,
     category |-> q.category, difficulty |-> q.difficulty]

\* The Question objects of the rows with the given ids, ordered by id:
\* Question.query.filter(...).order_by(Question.id).all()
QueryOrdered(ids) ==
    LET sorted == SortedSeq(ids)
    IN  [k \in 1..Len(sorted) |-> QuestionObj(sorted[k])]

\* paginated_questions with the first page starting one page into the list.
paginated_questions_from_page(args, selection) ==
    LET page == ArgsGet(args, "page", 1)
        start == page * QUESTIONS_PER_PAGE
        end == start + QUESTIONS_PER_PAGE
        formatted == [k \in 1..Len(selection) |-> format(selection[k])]
    IN  PySlice(formatted, start, end)

paginated_questions(args, selection) ==
    LET page == ArgsGet(args, "page", 1)
        start == (page - 1) * QUESTIONS_PER_PAGE
        end == start + QUESTIONS_PER_PAGE
        formatted == [k \in 1..Len(selection) |-> format(selection[k])]
    IN  PySlice(formatted, start, end)

\* The {id: type} dictionary of all categories.
get_categories == categories

-----------------------------------------------------------------------------
(* Error handlers of the trivia application.                               *)

not_found ==
    [status |-> 404,
     body |-> [success |-> FALSE, error |-> 404, message |-> "resource not found"]]

\* The 422 handler answering with the error code of the 404 handler.
unprocessable_wrong_code ==
    [status |-> 422,
     body |-> [success |-> FALSE, error |-> 404, message |-> "unprocessable"]]

unprocessable ==
    [status |-> 422,
     body |-> [success |-> FALSE, error |-> 422, message |-> "unprocessable"]]

bad_request ==
    [status |-> 400,
     body |-> [success |-> FALSE, error |-> 400, message |-> "bad request"]]

internal_server_error ==
    [status |-> 500,
     body |-> [success |-> FALSE, error |-> 500, message |-> "internal server error"]]

\* jsonify(dict) returned from a view: status 200.
Ok(body) == [status |-> 200, body |-> body]

-----------------------------------------------------------------------------
(* Initial state and the inputs of the requests.                           *)

AllCategories == (1 :> "Science") @@ (2 :> "Art")

SeedTexts == << <<"a", "B">>, <<"b", "a">>, <<"A">> >>

\* The i-th question the store holds when the application starts.
SeedQuestion(i) ==
    [question |-> SeedTexts[(i % 3) + 1], answer |-> "seed",
     category |-> IF i % 5 = 0 THEN 2 ELSE 1, difficulty |-> (i % 5) + 1]

SeedSizes == 0..SeedMax

NoRequest == [route |-> "none"]

NoResponse == [status |-> 0, body |-> [success |-> FALSE]]

NoDrinks == [d \in {} |-> [title |-> "t", recipe |-> "r"]]

Init ==
    /\ \E n \in SeedSizes :
          /\ questions = [i \in 1..n |-> SeedQuestion(i)]
          /\ nextId = n + 1
          /\ categories = AllCategories
    /\ mutations = 0
    /\ drinks = NoDrinks
    /\ nextDrinkId = 1
    /\ req = NoRequest
    /\ resp = NoResponse
    /\ previous = <<>>
    /\ quizCategory = 0
    /\ answered = <<>>

NoArgs == [a \in {} |-> 0]

PageArgs == {NoArgs} \cup {[page |-> p] : p \in (0 - NegPages)..MaxPage}

\* Ids a client names: every id ever assigned in a run, and one never assigned.
QuestionIds == 1..(SeedMax + MaxMutations + 1)

\* Category ids a client names: 0 (all), the two categories, one that is none.
CategoryIds == 0..3

SearchTerms == { <<"a">>, <<"a", "b">>, <<"_">>, <<"c">> }

NewQuestions ==
    { [question |-> <<"a", "_">>, answer |-> "x", difficulty |-> 1, category |-> 1],
      [question |-> <<"B">>, answer |-> "y", difficulty |-> 2, category |-> 2],
      [question |-> <<"c", "a">>, answer |-> "z", difficulty |-> 10, category |-> 3] }

None == "None"

\* dict.get(name, None)
BodyGet(body, name) == IF name \in DOMAIN body THEN body[name] ELSE None

\* The parsed JSON bodies of POST /questions: a search, a new question, and a
\* new question sent along with an empty search term.
QuestionBodies ==
    {[kind |-> "json", searchTerm |-> t] : t \in SearchTerms}
    \cup {[kind |-> "json", question |-> n.question, answer |-> n.answer,
           difficulty |-> n.difficulty, category |-> n.category] : n \in NewQuestions}
    \cup {[kind |-> "json", question |-> n.question, answer |-> n.answer,
           difficulty |-> n.difficulty, category |-> n.category, searchTerm |-> <<>>]
          : n \in {x \in NewQuestions : x.category = 1}}

\* A request body that is no JSON document (get_json() raises 400) and a
\* request without a JSON body (get_json() returns None).
BrokenBodies == {[kind |-> "malformed"], [kind |-> "none"]}

-----------------------------------------------------------------------------
(* The data access layer of the trivia application.                        *)

\* Question.insert(): a new row under the next id of the id sequence. The
\* store takes any payload whose category exists; whether it takes one whose
\* category does not exist is left open, so both outcomes are followed.
InsertOutcomes(row) ==
    IF row.category \in DOMAIN categories THEN {"ok"} ELSE {"ok", "error"}

Inserted(row) == (nextId :> row) @@ questions

\* Question.delete(): the row of that id is removed, the others stay.
Deleted(id) == [i \in DOMAIN questions \ {id} |-> questions[i]]

-----------------------------------------------------------------------------
(* The request handlers of the trivia application.                         *)

\* GET /categories
retrieve_categories ==
    /\ req' = [route |-> "retrieve_categories"]
    /\ resp' = IF Cardinality(DOMAIN get_categories) = 0
               THEN not_found
               ELSE Ok([success |-> TRUE, categories |-> get_categories])
    /\ UNCHANGED <<triviaVars, drinkVars>>

\* GET /questions[?page=N]
retrieve_questions ==
    \E args \in PageArgs :
        LET selection == QueryOrdered(DOMAIN questions)
            current_questions == paginated_questions(args, selection)
        IN  /\ req' = [route |-> "retrieve_questions", args |-> args]
            /\ resp' = IF Len(current_questions) = 0
                       THEN not_found
                       ELSE Ok([success |-> TRUE,
                                questions |-> current_questions,
                                total_questions |-> Cardinality(DOMAIN questions),
                                categories |-> get_categories,
                                current_category |-> "All"])
            /\ UNCHANGED <<triviaVars, drinkVars>>

\* delete_question answering 200 without the row being deleted.
delete_question_keeps_row ==
    \E question_id \in QuestionIds :
        /\ req' = [route |-> "delete_question", question_id |-> question_id]
        /\ IF question_id \notin DOMAIN questions
           THEN /\ resp' = unprocessable
                /\ UNCHANGED triviaVars
           ELSE /\ mutations < MaxMutations
                /\ questions' = questions
                /\ mutations' = mutations + 1
                /\ resp' = Ok([success |-> TRUE, deleted |-> question_id])
                /\ UNCHANGED <<categories, nextId>>
        /\ UNCHANGED drinkVars

\* delete_question with the abort(404) of an absent id outside the try block.
delete_question_abort_outside_try ==
    \E question_id \in QuestionIds :
        /\ req' = [route |-> "delete_question", question_id |-> question_id]
        /\ IF question_id \notin DOMAIN questions
           THEN /\ resp' = not_found
                /\ UNCHANGED triviaVars
           ELSE /\ mutations < MaxMutations
                /\ questions' = Deleted(question_id)
                /\ mutations' = mutations + 1
                /\ resp' = Ok([success |-> TRUE, deleted |-> question_id])
                /\ UNCHANGED <<categories, nextId>>
        /\ UNCHANGED drinkVars

\* DELETE /questions/<int:question_id>. abort(404) is raised inside the try
\* block, whose bare except answers every exception with abort(422).
delete_question ==
    \E question_id \in QuestionIds :
        /\ req' = [route |-> "delete_question", question_id |-> question_id]
        /\ IF question_id \notin DOMAIN questions
           THEN /\ resp' = unprocessable
                /\ UNCHANGED triviaVars
           ELSE /\ mutations < MaxMutations
                /\ questions' = Deleted(question_id)
                /\ mutations' = mutations + 1
                /\ resp' = Ok([success |-> TRUE, deleted |-> question_id])
                /\ UNCHANGED <<categories, nextId>>
        /\ UNCHANGED drinkVars

\* create_questions reading the category of the new question from "difficulty".
create_questions_swapped_fields ==
    \E body \in QuestionBodies \cup BrokenBodies, args \in PageArgs :
        /\ body.kind # "json" => args = NoArgs
        /\ req' = [route |-> "create_questions", args |-> args, body |-> body]
        /\ IF body.kind = "malformed"
           THEN resp' = bad_request /\ UNCHANGED triviaVars
           ELSE IF body.kind = "none"
           THEN resp' = internal_server_error /\ UNCHANGED triviaVars
           ELSE LET new_question == BodyGet(body, "question")
                    new_answer == BodyGet(body, "answer")
                    new_difficulty == BodyGet(body, "difficulty")
                    new_category == BodyGet(body, "difficulty")
                    search == IF "searchTerm" \in DOMAIN body
                              THEN body.searchTerm ELSE <<>>
                IN  IF search # <<>>
                    THEN LET matches == {i \in DOMAIN questions :
                                             LikeMatch(SearchPattern(search),
                                                       questions[i].question)}
                             selection == QueryOrdered(matches)
                             current_questions == paginated_questions(args, selection)
                         IN  /\ resp' = Ok([success |-> TRUE,
                                            questions |-> current_questions,
                                            total_questions |-> Len(selection),
                                            current_category |-> "All"])
                             /\ UNCHANGED triviaVars
                    ELSE LET question == [question |-> new_question,
                                          answer |-> new_answer,
                                          difficulty |-> new_difficulty,
                                          category |-> new_category]
                         IN  /\ args = NoArgs
                             /\ \E outcome \in InsertOutcomes(question) :
                                  IF outcome = "ok"
                                  THEN /\ mutations < MaxMutations
                                       /\ questions' = Inserted(question)
                                       /\ nextId' = nextId + 1
                                       /\ mutations' = mutations + 1
                                       /\ resp' = Ok([success |-> TRUE])
                                       /\ UNCHANGED categories
                                  ELSE /\ resp' = unprocessable
                                       /\ UNCHANGED triviaVars
        /\ UNCHANGED drinkVars

\* POST /questions: a search when the body carries a non-empty searchTerm,
\* the creation of a question otherwise.
create_questions ==
    \E body \in QuestionBodies \cup BrokenBodies, args \in PageArgs :
        /\ body.kind # "json" => args = NoArgs
        /\ req' = [route |-> "create_questions", args |-> args, body |-> body]
        /\ IF body.kind = "malformed"
           THEN resp' = bad_request /\ UNCHANGED triviaVars
           ELSE IF body.kind = "none"
           THEN resp' = internal_server_error /\ UNCHANGED triviaVars
           ELSE LET new_question == BodyGet(body, "question")
                    new_answer == BodyGet(body, "answer")
                    new_difficulty == BodyGet(body, "difficulty")
                    new_category == BodyGet(body, "category")
                    search == IF "searchTerm" \in DOMAIN body
                              THEN body.searchTerm ELSE <<>>
                IN  IF search # <<>>
                    THEN LET matches == {i \in DOMAIN questions :
                                             LikeMatch(SearchPattern(search),
                                                       questions[i].question)}
                             selection == QueryOrdered(matches)
                             current_questions == paginated_questions(args, selection)
                         IN  /\ resp' = Ok([success |-> TRUE,
                                            questions |-> current_questions,
                                            total_questions |-> Len(selection),
                                            current_category |-> "All"])
                             /\ UNCHANGED triviaVars
                    ELSE LET question == [question |-> new_question,
                                          answer |-> new_answer,
                                          difficulty |-> new_difficulty,
                                          category |-> new_category]
                         IN  /\ args = NoArgs
                             /\ \E outcome \in InsertOutcomes(question) :
                                  IF outcome = "ok"
                                  THEN /\ mutations < MaxMutations
                                       /\ questions' = Inserted(question)
                                       /\ nextId' = nextId + 1
                                       /\ mutations' = mutations + 1
                                       /\ resp' = Ok([success |-> TRUE])
                                       /\ UNCHANGED categories
                                  ELSE /\ resp' = unprocessable
                                       /\ UNCHANGED triviaVars
        /\ UNCHANGED drinkVars

\* GET /categories/<int:category_id>/questions[?page=N]. The category is
\* looked up only when the page is not empty; .type of a missing category
\* raises, which the application answers with its 500 handler.
retrieve_questions_by_category ==
    \E category_id \in CategoryIds, args \in PageArgs :
        LET in_category == {i \in DOMAIN questions :
                                questions[i].category = category_id}
            selection == QueryOrdered(in_category)
            current_questions == paginated_questions(args, selection)
        IN  /\ req' = [route |-> "retrieve_questions_by_category",
                       category_id |-> category_id, args |-> args]
            /\ resp' = IF Len(current_questions) = 0
                       THEN not_found
                       ELSE IF category_id \notin DOMAIN categories
                       THEN internal_server_error
                       ELSE Ok([success |-> TRUE,
                                questions |-> current_questions,
                                total_questions |-> Len(current_questions),
                                current_category |-> categories[category_id]])
            /\ UNCHANGED <<triviaVars, drinkVars>>

\* The previous_questions lists a client sends: none, two fixed ids, every
\* id in the store, every id but the largest.
PreviousChoices ==
    { {}, {1, 3}, DOMAIN questions,
      {i \in DOMAIN questions : \E j \in DOMAIN questions : j > i} }

\* The bodies of POST /quizzes.
QuizBodies ==
    {[kind |-> "json", previous_questions |-> P, quiz_category |-> [id |-> c]]
        : P \in PreviousChoices, c \in CategoryIds} \cup BrokenBodies

\* The quiz handler with the previous questions left out of the category filter.
create_quiz_ignores_previous(body) ==
    /\ req' = [route |-> "create_quiz", body |-> body]
    /\ IF body.kind = "malformed"
       THEN resp' = bad_request
       ELSE IF body.kind = "none"
       THEN resp' = internal_server_error
       ELSE LET prev_questions == body.previous_questions
                category_id == body.quiz_category.id
                not_previous == {i \in DOMAIN questions : i \notin prev_questions}
                in_category_not_previous ==
                    {i \in DOMAIN questions : questions[i].category = category_id}
                candidates == IF category_id = 0
                              THEN QueryOrdered(not_previous)
                              ELSE QueryOrdered(in_category_not_previous)
            IN  IF Len(candidates) = 0
                THEN resp' = internal_server_error
                ELSE \E k \in 1..Len(candidates) :
                        resp' = Ok([success |-> TRUE,
                                    question |-> format(candidates[k])])
    /\ UNCHANGED <<triviaVars, drinkVars>>

\* The quiz handler with a choice that yields None on an empty list, so that
\* the abort(404) after it is reached.
create_quiz_none_on_empty(body) ==
    /\ req' = [route |-> "create_quiz", body |-> body]
    /\ IF body.kind = "malformed"
       THEN resp' = bad_request
       ELSE IF body.kind = "none"
       THEN resp' = internal_server_error
       ELSE LET prev_questions == body.previous_questions
                category_id == body.quiz_category.id
                not_previous == {i \in DOMAIN questions : i \notin prev_questions}
                in_category_not_previous ==
                    {i \in DOMAIN questions : questions[i].category = category_id
                                               /\ i \notin prev_questions}
                candidates == IF category_id = 0
                              THEN QueryOrdered(not_previous)
                              ELSE QueryOrdered(in_category_not_previous)
            IN  IF Len(candidates) = 0
                THEN resp' = not_found
                ELSE \E k \in 1..Len(candidates) :
                        resp' = Ok([success |-> TRUE,
                                    question |-> format(candidates[k])])
    /\ UNCHANGED <<triviaVars, drinkVars>>

\* The handler of POST /quizzes on one request body. random.choice of an empty
\* list raises IndexError, which the application answers with its 500 handler.
create_quiz_on(body) ==
    /\ req' = [route |-> "create_quiz", body |-> body]
    /\ IF body.kind = "malformed"
       THEN resp' = bad_request
       ELSE IF body.kind = "none"
       THEN resp' = internal_server_error
       ELSE LET prev_questions == body.previous_questions
                category_id == body.quiz_category.id
                not_previous == {i \in DOMAIN questions : i \notin prev_questions}
                in_category_not_previous ==
                    {i \in DOMAIN questions : questions[i].category = category_id
                                               /\ i \notin prev_questions}
                candidates == IF category_id = 0
                              THEN QueryOrdered(not_previous)
                              ELSE QueryOrdered(in_category_not_previous)
            IN  IF Len(candidates) = 0
                THEN resp' = internal_server_error
                ELSE \E k \in 1..Len(candidates) :
                        resp' = Ok([success |-> TRUE,
                                    question |-> format(candidates[k])])
    /\ UNCHANGED <<triviaVars, drinkVars>>

\* POST /quizzes
create_quiz == \E body \in QuizBodies : create_quiz_on(body)

\* A request that matches no route of the application.
unknown_route ==
    /\ req' = [route |-> "unknown"]
    /\ resp' = not_found
    /\ UNCHANGED <<triviaVars, drinkVars>>

\* The client takes the response; the next request follows it. Requests are
\* handled one at a time, each from its arrival to its response.
receive_response ==
    /\ req # NoRequest
    /\ req' = NoRequest
    /\ resp' = NoResponse
    /\ UNCHANGED <<triviaVars, drinkVars, sessionVars>>

Idle == req = NoRequest

Next ==
    \/ Idle /\ retrieve_categories /\ UNCHANGED sessionVars
    \/ Idle /\ retrieve_questions /\ UNCHANGED sessionVars
    \/ Idle /\ delete_question /\ UNCHANGED sessionVars
    \/ Idle /\ create_questions /\ UNCHANGED sessionVars
    \/ Idle /\ retrieve_questions_by_category /\ UNCHANGED sessionVars
    \/ Idle /\ create_quiz /\ UNCHANGED sessionVars
    \/ Idle /\ unknown_route /\ UNCHANGED sessionVars
    \/ receive_response

Spec == Init /\ [][Next]_vars

-----------------------------------------------------------------------------
(* The drinks application.                                                 *)

Permissions == {"get:drinks-detail", "post:drinks", "patch:drinks", "delete:drinks"}

\* The bearer tokens a client presents: none or an invalid one, and valid
\* ones granting no permission, one permission, or all of them.
Tokens ==
    {[valid |-> FALSE, permissions |-> {}]}
    \cup {[valid |-> TRUE, permissions |-> ps]
            : ps \in {{}, Permissions} \cup {{x} : x \in Permissions}}

\* requires_auth(permission): the check made before the handler body runs.
\* It passes, or raises an AuthError carrying a status code and an error body.
requires_auth(permission, token) ==
    IF ~token.valid
    THEN [passed |-> FALSE, status_code |-> 401,
          error |-> [code |-> "invalid_header", description |-> "token missing or invalid"]]
    ELSE IF permission \notin token.permissions
    THEN [passed |-> FALSE, status_code |-> 403,
          error |-> [code |-> "unauthorized", description |-> "permission not found"]]
    ELSE [passed |-> TRUE]

\* errorhandler(AuthError): the error of the exception under its status code.
unauthorized(ex) == [status |-> ex.status_code, body |-> ex.error]

drinks_unprocessable ==
    [status |-> 422,
     body |-> [success |-> FALSE, error |-> 422, message |-> "unprocessable"]]

drinks_not_found ==
    [status |-> 404,
     body |-> [success |-> FALSE, error |-> 404, message |-> "resource not found"]]

\* json.dumps and json.loads of a recipe.
JsonDumps(x) == <<"json", x>>

JsonLoads(t) == t[2]

\* Drink.long(): the full representation.
long(id) == [id |-> id, title |-> drinks[id].title, recipe |-> JsonLoads(drinks[id].recipe)]

\* Drink.short(): the recipe without the names of its ingredients.
short(id) ==
    LET r == JsonLoads(drinks[id].recipe)
    IN  [id |-> id, title |-> drinks[id].title,
         recipe |-> [color |-> r.color, parts |-> r.parts]]

DrinkIds == 1..(MaxDrinks + 1)

Titles == {"latte", "mocha"}

Recipes == {[name |-> "milk", color |-> "white", parts |-> 1],
            [name |-> "coffee", color |-> "brown", parts |-> 2]}

\* JSON bodies of POST and PATCH: a whole drink, a drink without its recipe,
\* and no JSON body at all.
DrinkBodies ==
    {[kind |-> "json", title |-> t, recipe |-> r] : t \in Titles, r \in Recipes}
    \cup {[kind |-> "json", title |-> t] : t \in Titles}
    \cup {[kind |-> "none"]}

\* Drink.query.all(): the ids of all drinks, in order.
AllDrinks == SortedSeq(DOMAIN drinks)

\* GET /drinks
retrieve_drinks ==
    /\ req' = [route |-> "retrieve_drinks"]
    /\ resp' = IF Cardinality(DOMAIN drinks) = 0
               THEN drinks_not_found
               ELSE Ok([success |-> TRUE, drinks |-> [k \in 1..Len(AllDrinks) |-> short(AllDrinks[k])]])
    /\ UNCHANGED <<triviaVars, drinkVars>>

\* GET /drinks-detail
retrieve_drinks_detail ==
    \E token \in Tokens :
        LET auth == requires_auth("get:drinks-detail", token)
        IN  /\ req' = [route |-> "retrieve_drinks_detail", token |-> token]
            /\ resp' = IF ~auth.passed THEN unauthorized(auth)
                       ELSE IF Cardinality(DOMAIN drinks) = 0 THEN drinks_not_found
                       ELSE Ok([success |-> TRUE, drinks |-> [k \in 1..Len(AllDrinks) |-> long(AllDrinks[k])]])
            /\ UNCHANGED <<triviaVars, drinkVars>>

\* POST /drinks
create_drinks ==
    \E token \in Tokens, body \in DrinkBodies :
        LET auth == requires_auth("post:drinks", token)
        IN  /\ req' = [route |-> "create_drinks", token |-> token, body |-> body]
            /\ IF ~auth.passed
               THEN resp' = unauthorized(auth) /\ UNCHANGED drinkVars
               ELSE IF body.kind = "none" \/ {"title", "recipe"} \ DOMAIN body # {}
               THEN resp' = drinks_unprocessable /\ UNCHANGED drinkVars
               ELSE /\ nextDrinkId <= MaxDrinks
                    /\ drinks' = (nextDrinkId :> [title |-> body.title,
                                                  recipe |-> JsonDumps(body.recipe)])
                                 @@ drinks
                    /\ nextDrinkId' = nextDrinkId + 1
                    /\ resp' = Ok([success |-> TRUE,
                                   drinks |-> <<[id |-> nextDrinkId, title |-> body.title,
                                                 recipe |-> JsonLoads(JsonDumps(body.recipe))]>>])
            /\ UNCHANGED triviaVars

\* PATCH /drinks/<int:drink_id>
update_drinks ==
    \E token \in Tokens, drink_id \in DrinkIds,
       body \in {b \in DrinkBodies : b.kind = "none" \/ "recipe" \in DOMAIN b} :
        LET auth == requires_auth("patch:drinks", token)
        IN  /\ req' = [route |-> "update_drinks", token |-> token,
                       drink_id |-> drink_id, body |-> body]
            /\ IF ~auth.passed
               THEN resp' = unauthorized(auth) /\ UNCHANGED drinkVars
               ELSE IF drink_id \notin DOMAIN drinks
               THEN resp' = drinks_not_found /\ UNCHANGED drinkVars
               ELSE IF body.kind = "none"
               THEN resp' = drinks_unprocessable /\ UNCHANGED drinkVars
               ELSE /\ drinks' = [drinks EXCEPT ![drink_id] =
                                     [title |-> body.title,
                                      recipe |-> JsonDumps(body.recipe)]]
                    /\ resp' = Ok([success |-> TRUE,
                                   drinks |-> <<[id |-> drink_id, title |-> body.title,
                                                 recipe |-> JsonLoads(JsonDumps(body.recipe))]>>])
                    /\ UNCHANGED nextDrinkId
            /\ UNCHANGED triviaVars

\* delete_drinks without the requires_auth("delete:drinks") decorator.
delete_drinks_unguarded ==
    \E token \in Tokens, drink_id \in DrinkIds :
        LET auth == [passed |-> TRUE]
        IN  /\ req' = [route |-> "delete_drinks", token |-> token, drink_id |-> drink_id]
            /\ IF ~auth.passed
               THEN resp' = unauthorized(auth) /\ UNCHANGED drinkVars
               ELSE IF drink_id \notin DOMAIN drinks
               THEN resp' = drinks_not_found /\ UNCHANGED drinkVars
               ELSE /\ drinks' = [i \in DOMAIN drinks \ {drink_id} |-> drinks[i]]
                    /\ resp' = Ok([success |-> TRUE, delete |-> drink_id])
                    /\ UNCHANGED nextDrinkId
            /\ UNCHANGED triviaVars

\* DELETE /drinks/<int:drink_id>
delete_drinks ==
    \E token \in Tokens, drink_id \in DrinkIds :
        LET auth == requires_auth("delete:drinks", token)
        IN  /\ req' = [route |-> "delete_drinks", token |-> token, drink_id |-> drink_id]
            /\ IF ~auth.passed
               THEN resp' = unauthorized(auth) /\ UNCHANGED drinkVars
               ELSE IF drink_id \notin DOMAIN drinks
               THEN resp' = drinks_not_found /\ UNCHANGED drinkVars
               ELSE /\ drinks' = [i \in DOMAIN drinks \ {drink_id} |-> drinks[i]]
                    /\ resp' = Ok([success |-> TRUE, delete |-> drink_id])
                    /\ UNCHANGED nextDrinkId
            /\ UNCHANGED triviaVars

DrinksInit ==
    /\ Init
    /\ nextId = 1

DrinksNext ==
    \/ Idle /\ retrieve_drinks /\ UNCHANGED sessionVars
    \/ Idle /\ retrieve_drinks_detail /\ UNCHANGED sessionVars
    \/ Idle /\ create_drinks /\ UNCHANGED sessionVars
    \/ Idle /\ update_drinks /\ UNCHANGED sessionVars
    \/ Idle /\ delete_drinks /\ UNCHANGED sessionVars
    \/ receive_response

SpecDrinks == DrinksInit /\ [][DrinksNext]_vars

-----------------------------------------------------------------------------
(* Properties of the trivia application.                                   *)

\* The dictionary of the stored question of that id.
Entry(id) ==
    [id |-> id, question |-> questions[id].question, answer |-> questions[id].answer,
     category |-> questions[id].category, difficulty |-> questions[id].difficulty]

\* The number of pages of a list of n entries.
PageCount(n) == (n + QUESTIONS_PER_PAGE - 1) \div QUESTIONS_PER_PAGE

\* Entries (p-1)*10 .. (p-1)*10+9, counted from 0, of the list of the entries
\* of the ids in S in increasing order of id, for a page p >= 1.
PageOf(S, p) ==
    LET ids == SortedSeq(S)
        first == (p - 1) * QUESTIONS_PER_PAGE
        rest == Len(ids) - first
        len == IF rest < 0 THEN 0
               ELSE IF rest > QUESTIONS_PER_PAGE THEN QUESTIONS_PER_PAGE ELSE rest
    IN  [k \in 1..len |-> Entry(ids[first + k])]

RequestedPage == ArgsGet(req.args, "page", 1)

\* C1: GET /questions?page=p with 1 <= p <= ceil(N/10) answers 200 with the
\* entries (p-1)*10 .. (p-1)*10+9 of the id-ordered list of all questions, at
\* most 10 of them, and total_questions = N whatever p is.
C1_PageWithinRange ==
    (req.route = "retrieve_questions"
       /\ 1 <= RequestedPage
       /\ RequestedPage <= PageCount(Cardinality(DOMAIN questions)))
    => /\ resp.status = 200
       /\ resp.body.success = TRUE
       /\ resp.body.questions = PageOf(DOMAIN questions, RequestedPage)
       /\ Len(resp.body.questions) <= QUESTIONS_PER_PAGE
       /\ resp.body.total_questions = Cardinality(DOMAIN questions)

\* A second page that is not the whole store has been served.
C1_Witness ==
    /\ req.route = "retrieve_questions"
    /\ RequestedPage = 2
    /\ resp.status = 200
    /\ Len(resp.body.questions) >= 1
    /\ resp.body.total_questions > Len(resp.body.questions)

\* C2: GET /questions?page=p with p outside 1..ceil(N/10), pages beyond the
\* last, page 0 and negative pages alike, answers 404 'resource not found'.
C2_PageOutOfRange ==
    (req.route = "retrieve_questions"
       /\ ~(1 <= RequestedPage
            /\ RequestedPage <= PageCount(Cardinality(DOMAIN questions))))
    => resp = not_found

\* C3: DELETE /questions/{id} of an existing id answers 200 with deleted = id,
\* removes that question and leaves every other question as it was; of an
\* absent id it answers 422 'unprocessable' and leaves the store as it was.
C3_DeleteQuestion ==
    [][(Idle /\ req'.route = "delete_question")
       => LET id == req'.question_id
          IN  IF id \in DOMAIN questions
              THEN /\ resp' = Ok([success |-> TRUE, deleted |-> id])
                   /\ DOMAIN questions' = DOMAIN questions \ {id}
                   /\ \A other \in DOMAIN questions \ {id} :
                         questions'[other] = questions[other]
              ELSE /\ resp' = unprocessable
                   /\ questions' = questions]_vars

\* A question has been deleted from a store that keeps other questions.
C3_Witness ==
    /\ req.route = "delete_question"
    /\ resp.status = 200
    /\ resp.body.deleted = req.question_id
    /\ req.question_id \notin DOMAIN questions
    /\ DOMAIN questions # {}

\* C4 as stated: DELETE /questions/{id} of an absent id is answered with the
\* 404 'resource not found' envelope.
C4_DeleteAbsentNotFound ==
    [][(Idle /\ req'.route = "delete_question"
             /\ req'.question_id \notin DOMAIN questions)
       => resp' = not_found]_vars

\* C4 as amended: DELETE /questions/{id} of an absent id is answered with the
\* 422 'unprocessable' envelope, the NotFound raised by the handler being
\* caught by its own except clause.
C4_DeleteAbsentUnprocessable ==
    [][(Idle /\ req'.route = "delete_question"
             /\ req'.question_id \notin DOMAIN questions)
       => (resp'.status = 422 /\ resp'.body.message = "unprocessable"
             /\ resp'.body.success = FALSE)]_vars

\* The deletion of an id that is not in a non-empty store has been answered.
C4_Witness ==
    /\ req.route = "delete_question"
    /\ req.question_id \notin DOMAIN questions
    /\ resp.status # 200
    /\ DOMAIN questions # {}

\* t occurs in text as a substring, ignoring case.
ContainsIgnoreCase(text, t) ==
    \E i \in 1..(Len(text) - Len(t) + 1) :
        \A k \in 1..Len(t) : Lower(text[i + k - 1]) = Lower(t[k])

IsSearch == /\ req.route = "create_questions"
            /\ req.body.kind = "json"
            /\ "searchTerm" \in DOMAIN req.body
            /\ req.body.searchTerm # <<>>

SubstringMatches ==
    {i \in DOMAIN questions : ContainsIgnoreCase(questions[i].question, req.body.searchTerm)}

\* C5: POST /questions with a non-empty searchTerm t answers 200, questions is
\* the requested page of the id-ordered questions whose text contains t as a
\* substring ignoring case, total_questions is the number of all such
\* questions; with no match it is 200 with no questions and a total of 0.
C5_SearchIsSubstringMatch ==
    IsSearch
    => /\ resp.status = 200
       /\ resp.body.success = TRUE
       /\ Len(resp.body.questions) <= QUESTIONS_PER_PAGE
       /\ resp.body.total_questions = Cardinality(SubstringMatches)
       /\ (RequestedPage >= 1
             => resp.body.questions = PageOf(SubstringMatches, RequestedPage))
       /\ (SubstringMatches = {}
             => resp.body.questions = <<>> /\ resp.body.total_questions = 0)

IsQuiz == req.route = "create_quiz" /\ req.body.kind = "json"

\* The questions a quiz may return: not in previous_questions and, for a
\* category other than 0, of that category.
QuizCandidates ==
    {i \in DOMAIN questions :
        /\ i \notin req.body.previous_questions
        /\ (req.body.quiz_category.id # 0
              => questions[i].category = req.body.quiz_category.id)}

\* C6: POST /quizzes answers 200 with a question of the candidate set S when S
\* is not empty, and 500 'internal server error' when S is empty.
C6_QuizQuestion ==
    IsQuiz
    => IF QuizCandidates # {}
       THEN /\ resp.status = 200
            /\ resp.body.success = TRUE
            /\ resp.body.question.id \in QuizCandidates
            /\ resp.body.question = Entry(resp.body.question.id)
       ELSE resp = internal_server_error

\* A quiz of one category with some questions already asked returned another.
C6_Witness ==
    /\ IsQuiz
    /\ req.body.quiz_category.id # 0
    /\ req.body.previous_questions \cap DOMAIN questions # {}
    /\ resp.status = 200
    /\ Cardinality(QuizCandidates) >= 2

IsCreate == /\ req.route = "create_questions"
            /\ req.body.kind = "json"
            /\ ("searchTerm" \in DOMAIN req.body => req.body.searchTerm = <<>>)

\* C8: POST /questions without a search term, when answered 200, has inserted
\* exactly one question with the fields of the body under an id no question
\* had, has left the other questions as they were, and answers the success
\* flag alone; otherwise it is answered 422 and the store is as it was.
C8_CreateQuestion ==
    [][(Idle /\ IsCreate')
       => IF resp'.status = 200
          THEN /\ resp'.body = [success |-> TRUE]
               /\ \E id \in DOMAIN questions' \ DOMAIN questions :
                     /\ DOMAIN questions' = DOMAIN questions \cup {id}
                     /\ questions'[id] = [question |-> req'.body.question,
                                          answer |-> req'.body.answer,
                                          difficulty |-> req'.body.difficulty,
                                          category |-> req'.body.category]
               /\ \A old \in DOMAIN questions : questions'[old] = questions[old]
               /\ Cardinality(DOMAIN questions') = Cardinality(DOMAIN questions) + 1
          ELSE /\ resp' = unprocessable
               /\ questions' = questions]_vars

\* A question has been created after the question of the largest id was
\* deleted: the new id is larger than that of every question in the store.
C8_Witness ==
    /\ IsCreate
    /\ resp.status = 200
    /\ nextId - 1 \in DOMAIN questions
    /\ nextId - 2 \notin DOMAIN questions
    /\ Cardinality(DOMAIN questions) >= 2

TriviaRoutes ==
    {"retrieve_categories", "retrieve_questions", "delete_question", "create_questions",
     "retrieve_questions_by_category", "create_quiz", "unknown"}

ErrorMessage(status) ==
    CASE status = 400 -> "bad request"
      [] status = 404 -> "resource not found"
      [] status = 422 -> "unprocessable"
      [] status = 500 -> "internal server error"
      [] OTHER -> "none"

-----------------------------------------------------------------------------
(* Properties of the drinks application.                                   *)

DrinkWriteRoutes == {"create_drinks", "update_drinks", "delete_drinks"}

RequiredPermission(route) ==
    CASE route = "create_drinks" -> "post:drinks"
      [] route = "update_drinks" -> "patch:drinks"
      [] route = "delete_drinks" -> "delete:drinks"

\* The request carries a valid token granting the permission of its route.
Authorized(r) == r.token.valid /\ RequiredPermission(r.route) \in r.token.permissions

AuthStatuses == {401, 403}

\* C9: the drinks change only through a POST, PATCH or DELETE that passed the
\* permission check of its scope and, for PATCH and DELETE, named an existing
\* id; a request failing the check gets the authorization error and changes
\* nothing, also when its id does not exist; an authorized PATCH or DELETE of
\* a missing id gets 404 and changes nothing; an authorized DELETE of an
\* existing id returns the id and removes that drink alone.
C9_DrinksChange ==
    [][/\ drinks' # drinks
            => /\ req'.route \in DrinkWriteRoutes
               /\ Authorized(req')
               /\ req'.route # "create_drinks" => req'.drink_id \in DOMAIN drinks
       /\ (Idle /\ req'.route \in DrinkWriteRoutes /\ ~Authorized(req'))
            => /\ resp'.status \in AuthStatuses
               /\ resp'.body.code \in {"invalid_header", "unauthorized"}
               /\ drinks' = drinks
       /\ (Idle /\ req'.route \in {"update_drinks", "delete_drinks"}
                /\ Authorized(req') /\ req'.drink_id \notin DOMAIN drinks)
            => resp' = drinks_not_found /\ drinks' = drinks
       /\ (Idle /\ req'.route = "delete_drinks"
                /\ Authorized(req') /\ req'.drink_id \in DOMAIN drinks)
            => /\ resp' = Ok([success |-> TRUE, delete |-> req'.drink_id])
               /\ DOMAIN drinks' = DOMAIN drinks \ {req'.drink_id}
               /\ \A other \in DOMAIN drinks' : drinks'[other] = drinks[other]]_vars

\* An authorized DELETE has removed one drink of several.
C9_Witness ==
    /\ req.route = "delete_drinks"
    /\ Authorized(req)
    /\ resp.status = 200
    /\ req.drink_id \notin DOMAIN drinks
    /\ DOMAIN drinks # {}

-----------------------------------------------------------------------------
(* A quiz session on a store that does not change.                         *)

\* The session is over once a request of it was not answered 200.
QuizEnded == answered # <<>> /\ answered[Len(answered)] # 200

QuizInit ==
    /\ \E n \in 0..QuizSeedMax :
          /\ questions = [i \in 1..n |-> SeedQuestion(i)]
          /\ nextId = n + 1
    /\ categories = AllCategories
    /\ mutations = 0
    /\ drinks = NoDrinks
    /\ nextDrinkId = 1
    /\ req = NoRequest
    /\ resp = NoResponse
    /\ previous = <<>>
    /\ quizCategory \in CategoryIds
    /\ answered = <<>>

\* One request of the session: POST /quizzes with the questions given so far
\* and the category of the session; the id of the question of a 200 answer is
\* appended to the list sent with the next request.
quiz_session_step ==
    /\ ~QuizEnded
    /\ create_quiz_on([kind |-> "json",
                       previous_questions |-> {previous[k] : k \in 1..Len(previous)},
                       quiz_category |-> [id |-> quizCategory]])
    /\ answered' = Append(answered, resp'.status)
    /\ previous' = IF resp'.status = 200
                   THEN Append(previous, resp'.body.question.id)
                   ELSE previous
    /\ UNCHANGED quizCategory

QuizNext ==
    \/ Idle /\ quiz_session_step
    \/ receive_response

\* The client sends its next request as long as the session is not over, and
\* every request is handled to its response.
SpecQuiz ==
    /\ QuizInit
    /\ [][QuizNext]_vars
    /\ WF_vars(Idle /\ quiz_session_step)
    /\ WF_vars(receive_response)

\* The questions of the category of the session, all of them for category 0.
QuizPool ==
    {i \in DOMAIN questions : quizCategory = 0 \/ questions[i].category = quizCategory}

\* Of a session on K questions: the first K requests were answered 200 and
\* request K+1, the last, 500; none 404; no question was given twice, every
\* one given is of the category, and at the end every one of them was given.
QuizSessionSoFar ==
    LET K == Cardinality(QuizPool)
    IN  /\ Len(answered) <= K + 1
        /\ \A i \in 1..Len(answered) :
              /\ answered[i] # 404
              /\ i <= K => answered[i] = 200
              /\ i = K + 1 => answered[i] = 500
        /\ \A i, j \in 1..Len(previous) : i # j => previous[i] # previous[j]
        /\ {previous[k] : k \in 1..Len(previous)} \subseteq QuizPool
        /\ QuizEnded => {previous[k] : k \in 1..Len(previous)} = QuizPool

\* C11: a quiz session on an unchanging store gets every question of its
\* category exactly once; with K such questions the first K requests are
\* answered 200 and request K+1 is answered 500, so the session ends, and no
\* request of it is answered 404.
C11_QuizSession == []QuizSessionSoFar /\ <>QuizEnded

\* A session of one category with several questions has ended.
C11_Witness ==
    /\ QuizEnded
    /\ quizCategory # 0
    /\ Len(previous) >= 3
    /\ Len(answered) = Len(previous) + 1
    /\ Cardinality(DOMAIN questions) > Len(previous)

====
